---- MODULE Spec2Model ----
(***************************************************************************)
(* A model of the PDF compression worker, worker/pdf/compress.py.          *)
(*                                                                         *)
(* Each worker process runs compress_pdf_task to completion, one task at   *)
(* a time.  A run is modelled statement by statement: pc[w] is the         *)
(* position of worker w in the function body, loc[w] holds the function's  *)
(* local variables, and the Redis store, the pub/sub channels and the      *)
(* temporary file system are shared state.  Every call that leaves the     *)
(* process (Redis, HTTP download, pikepdf, ocrmypdf, Ghostscript,          *)
(* Cloudinary, the file system) may fail, and an external tool that exits  *)
(* with status 0 may still leave its output file missing or empty.         *)
(***************************************************************************)
EXTENDS Integers, Sequences, FiniteSets, TLC

(***************************************************************************)
(* Bounds of the model.                                                    *)
(***************************************************************************)
MaxPages == 4      \* documents have 0..MaxPages pages
MaxSize  == 2      \* payloads and files have 0..MaxSize bytes

(***************************************************************************)
(* Values.                                                                 *)
(***************************************************************************)
None == "None"

Workers  == {"w1", "w2"}
Jobs     == {"job1", "job2"}
DirNames == {"tmpA", "tmpB"}
LevelNames == {"low", "medium", "high", "ultra", "High"}
Artifacts == {"src.pdf", "p1.pdf", "p2.pdf", "out.pdf"}

\* Python values that reach str() and json.dumps(): an int or a str.
PyInt(n) == [t |-> "int", v |-> n]
PyStr(s) == [t |-> "str", v |-> s]

\* str(v), as hset's mapping applies it to every field value.
str(x) == IF x.t = "int" THEN ToString(x.v) ELSE x.v

(***************************************************************************)
(* LEVELS, the table of quality profiles.                                  *)
(***************************************************************************)
LEVELS ==
    [low    |-> [dpi |-> 300, jpeg_q |-> 85, jbig2 |-> "--jbig2-lossless", gs |-> "/printer"],
     medium |-> [dpi |-> 150, jpeg_q |-> 65, jbig2 |-> "--jbig2-lossless", gs |-> "/ebook"],
     high   |-> [dpi |-> 96,  jpeg_q |-> 45, jbig2 |-> "--jbig2-lossy",    gs |-> "/screen"]]

\* The lookup of the level name without regard to case.
effective_level_ignoring_case(compression_level) ==
    IF compression_level = "High" THEN "high"
    ELSE IF compression_level \notin DOMAIN LEVELS THEN "medium" ELSE compression_level

\* Lines 118-119: an unknown level name is replaced by "medium".
effective_level(compression_level) ==
    IF compression_level \notin DOMAIN LEVELS THEN "medium" ELSE compression_level

(***************************************************************************)
(* Paths.  A path is its separator and its components; the file system is  *)
(* looked up by components, so both separators name the same file.         *)
(***************************************************************************)
Systems == {"Linux", "Windows"}     \* platform.system() of a worker host
os_sep(system) == IF system = "Windows" THEN "\\" ELSE "/"

NoPath == [sep |-> "/", parts |-> <<>>]
\* The path of the temporary directory named d on a host.
DirPath(d, system) == [sep |-> os_sep(system), parts |-> <<d>>]
\* os.path.join(tmp, name)
path_join(tmp, name) == [tmp EXCEPT !.parts = Append(@, name)]
\* The path as text, as an f-string prints it.
RECURSIVE JoinParts(_, _)
JoinParts(parts, sep) ==
    IF parts = <<>> THEN ""
    ELSE IF Len(parts) = 1 THEN parts[1]
    ELSE parts[1] \o sep \o JoinParts(Tail(parts), sep)
PathStr(p) == JoinParts(p.parts, p.sep)

\* _safe_path: on Windows every backslash becomes a forward slash.
_safe_path(path, system) ==
    IF system = "Windows" THEN [path EXCEPT !.sep = "/"] ELSE path

VARIABLES
    pc,          \* pc[w]: position of worker w in compress_pdf_task
    loc,         \* loc[w]: the local variables of the run of worker w
    reports,     \* reports[w]: every _update call of the run, in order, and how it ended
    calls,       \* calls[w]: the stages the run has invoked, in order
    validated,   \* validated[w]: the artifacts _validate_file has accepted in the run
    store,       \* store[j]: the Redis hash of job j (field name -> string)
    published,   \* published[j]: the last message published on "progress:j"
    dirs,        \* the temporary directories that exist
    files,       \* files[d][a]: size of artifact a in directory d, -1 if absent
    OCR_EXEC,    \* OCR_EXEC[w]: shutil.which("ocrmypdf") in the process of w
    pdf,         \* pdf[w]: the document worker w has open, if any, and its pages
    platform,    \* platform[w]: platform.system() on the host of worker w
    quota        \* quota[w]: the tasks worker w will still be handed

vars == <<pc, loc, reports, calls, validated, store, published, dirs, files,
          OCR_EXEC, pdf, platform, quota>>

NoExc == [type |-> None, msg |-> ""]
Exc(type, msg) == [type |-> type, msg |-> msg]

NoFiles == [a \in Artifacts |-> -1]
NoPdf == [open |-> FALSE, pages |-> <<>>]

\* The locals of a run before its first statement.
InitLoc ==
    [task_id |-> None, arg_level |-> None, compression_level |-> None,
     cfg |-> LEVELS["medium"],
     orig_size |-> -1, tmp |-> NoPath,
     src |-> NoPath, p1 |-> NoPath, p2 |-> NoPath, out |-> NoPath,
     scanned |-> FALSE, p2_in |-> NoPath,
     ocr_cmd |-> <<>>, gs_cmd |-> <<>>,
     final_size |-> -1, ratio |-> [num |-> 0, den |-> 1],
     cloud_url |-> None,
     exc |-> NoExc,          \* the exception an except clause has caught
     raised |-> NoExc,       \* the exception the task raised to its caller
     result |-> None]        \* the value the task returned

(***************************************************************************)
(* The file system.                                                        *)
(***************************************************************************)
\* os.path.exists(path)
path_exists(path) ==
    /\ Len(path.parts) = 2
    /\ path.parts[1] \in dirs
    /\ files[path.parts[1]][path.parts[2]] >= 0

\* os.path.getsize(path), for a path that exists
path_getsize(path) == files[path.parts[1]][path.parts[2]]

\* _validate_file without the size check.
_validate_file_exists_only(path, step_name) ==
    IF ~ path_exists(path)
    THEN [raises |-> Exc("FileNotFoundError",
                         "[" \o step_name \o "] File not found: " \o PathStr(path)),
          size |-> -1]
    ELSE [raises |-> NoExc, size |-> path_getsize(path)]

\* _validate_file raising the same error for a missing and for an empty file.
_validate_file_one_error(path, step_name) ==
    IF ~ path_exists(path) \/ path_getsize(path) = 0
    THEN [raises |-> Exc("FileNotFoundError",
                         "[" \o step_name \o "] File not found: " \o PathStr(path)),
          size |-> -1]
    ELSE [raises |-> NoExc, size |-> path_getsize(path)]

\* _validate_file(path, step_name): the exception it raises, or the size.
_validate_file(path, step_name) ==
    IF ~ path_exists(path)
    THEN [raises |-> Exc("FileNotFoundError",
                         "[" \o step_name \o "] File not found: " \o PathStr(path)),
          size |-> -1]
    ELSE LET size == path_getsize(path) IN
         IF size = 0
         THEN [raises |-> Exc("RuntimeError",
                              "[" \o step_name \o "] Generated file is 0 bytes: "
                                  \o PathStr(path)),
               size |-> -1]
         ELSE [raises |-> NoExc, size |-> size]

(***************************************************************************)
(* The classifier.                                                         *)
(***************************************************************************)
SampleSize == 3

\* A page: the number of its images and whether its resources hold "/Font".
Pages == [images : 0..1, font : BOOLEAN]
Docs == UNION {[1..n -> Pages] : n \in 0..MaxPages}

Min(a, b) == IF a < b THEN a ELSE b

\* The number of pages of the sequence with an image and no font.
RECURSIVE scanned_cnt(_)
scanned_cnt(pages) ==
    IF pages = <<>> THEN 0
    ELSE LET page == Head(pages)
             has_images == page.images > 0
             has_fonts == page.font
         IN (IF has_images /\ ~ has_fonts THEN 1 ELSE 0) + scanned_cnt(Tail(pages))

\* _is_scanned looking at every page instead of the first `sample`.
_is_scanned_all_pages(doc, sample) ==
    IF doc = <<>> THEN FALSE
    ELSE 10 * scanned_cnt(doc) >= 8 * Len(doc)

\* _is_scanned(pdf, sample).  scanned_cnt / len(pages) >= 0.8 is decided on
\* the exact quotient: with at most `sample` pages the quotient is never
\* within a rounding error of 0.8, so the float comparison agrees with it.
_is_scanned(doc, sample) ==
    LET pages == SubSeq(doc, 1, Min(sample, Len(doc))) IN
    IF pages = <<>> THEN FALSE
    ELSE 10 * scanned_cnt(pages) >= 8 * Len(pages)

(***************************************************************************)
(* Number formatting.                                                      *)
(***************************************************************************)
Abs(n) == IF n < 0 THEN -n ELSE n

\* f"{num / den:.1f}" for den > 0: one decimal, ties to the even digit, and
\* the sign kept even when the digits round to zero.  The quotient is taken
\* exactly; the float's own rounding error is not modelled.
format_1f(num, den) ==
    LET a == 10 * Abs(num)
        q == a \div den
        r == a % den
        t == IF 2 * r > den THEN q + 1
             ELSE IF 2 * r < den THEN q
             ELSE IF q % 2 = 0 THEN q ELSE q + 1
    IN (IF num < 0 THEN "-" ELSE "") \o ToString(t \div 10) \o "." \o ToString(t % 10)

\* The ratio with an output larger than the source counted as no saving.
savings_ratio_clamped(final_size, orig_size) ==
    IF final_size > orig_size THEN [num |-> 0, den |-> orig_size]
    ELSE [num |-> 100 * (orig_size - final_size), den |-> orig_size]

\* Line 204: ratio = 100 * (1 - final_size / orig_size), kept as a fraction.
savings_ratio(final_size, orig_size) ==
    [num |-> 100 * (orig_size - final_size), den |-> orig_size]

(***************************************************************************)
(* The state reporter.                                                     *)
(***************************************************************************)
Channel(task_id) == "progress:" \o task_id
Channels == {Channel(j) : j \in Jobs}

\* A Redis call returns, or raises before it takes effect.
RedisOutcomes == {"ok", "hset_raises", "publish_raises"}

\* A store write that replaces the whole hash by the given fields.
hset_replacing(hash, fields) == [k \in DOMAIN fields |-> str(fields[k])]

\* REDIS.hset(task_id, mapping={k: str(v)}): the given fields replace the
\* fields of the same name, the others stay.
hset(hash, fields) ==
    [k \in DOMAIN hash \cup DOMAIN fields |->
        IF k \in DOMAIN fields THEN str(fields[k]) ELSE hash[k]]

\* _update with its two calls in the other order: the publication first,
\* then the store write, so that a failing store write leaves a message
\* published and nothing stored.
_update_publish_first(task_id, fields, outcome) ==
    /\ published' = IF outcome = "publish_raises" THEN published
                    ELSE [published EXCEPT ![Channel(task_id)] = fields]
    /\ store' = IF outcome = "ok"
                THEN [store EXCEPT ![task_id] = hset(@, fields)]
                ELSE store

\* _update(task_id, **fields) with the given outcome of its two Redis calls.
_update(task_id, fields, outcome) ==
    /\ store' = IF outcome = "hset_raises" THEN store
                ELSE [store EXCEPT ![task_id] = hset(@, fields)]
    /\ published' = IF outcome = "ok"
                    THEN [published EXCEPT ![Channel(task_id)] = fields]
                    ELSE published

\* worker/utils.py, update_state: the same two calls, for the other tasks.
update_state(task_id, fields, outcome) == _update(task_id, fields, outcome)

\* The report after the download carrying the next checkpoint's value.
FieldsDownloadedAsStaged == [progress |-> PyInt(30)]

\* The fields of each report of compress_pdf_task.
FieldsProcessing == [status |-> PyStr("processing"), progress |-> PyInt(5)]
FieldsDownloaded == [progress |-> PyInt(20)]
FieldsStaged     == [progress |-> PyInt(30)]
FieldsOcrLate    == [progress |-> PyInt(75)]
FieldsOcr        == [progress |-> PyInt(45)]
FieldsCompress   == [progress |-> PyInt(70)]
FieldsMeasured   == [progress |-> PyInt(85)]
FieldsCompleted(l) ==
    [status        |-> PyStr("completed"),
     progress      |-> PyInt(100),
     result_url    |-> PyStr(l.cloud_url),
     original_kb   |-> PyStr(format_1f(l.orig_size, 1024)),
     compressed_kb |-> PyStr(format_1f(l.final_size, 1024)),
     saving        |-> PyStr(format_1f(l.ratio.num, l.ratio.den) \o "%")]
\* The failure report without its message.
FieldsFailedStatusOnly(e) == [status |-> PyStr("failed")]

\* Lines 234-240: the except clause chosen by the exception's type.
FieldsFailed(e) ==
    [status |-> PyStr("failed"),
     error  |-> PyStr((IF e.type = "CalledProcessError"
                       THEN "Process Error: " ELSE "Worker Error: ") \o e.msg)]

(***************************************************************************)
(* Control flow of a run.                                                  *)
(***************************************************************************)
\* The positions inside `with tempfile.TemporaryDirectory() as tmp:`.
WithBlock == {"write", "validate_src", "report30", "preprocess", "classify", "save",
              "validate_p1",
              "report45", "ocr", "validate_p2", "report70", "gs", "validate_out",
              "report85", "upload"}
Ended == {"returned", "raised"}

TmpDir(w) == loc[w].tmp.parts[1]

\* TemporaryDirectory.cleanup(): the directory and all it holds are removed.
cleanup(d) ==
    /\ dirs' = dirs \ {d}
    /\ files' = [files EXCEPT ![d] = NoFiles]

\* The statement completes: the run moves on with locals l.
Goto(w, l, next) ==
    /\ pc' = [pc EXCEPT ![w] = next]
    /\ loc' = [loc EXCEPT ![w] = l]

\* A raise that leaves the directory behind.
RaiseLeaking(w, l, e) ==
    /\ Goto(w, [l EXCEPT !.exc = e], "except")
    /\ UNCHANGED <<dirs, files>>

\* The statement raises e: the with block, if entered, is left (and cleans
\* up), and control reaches the except clauses of lines 234-240.
Raise(w, l, e) ==
    /\ Goto(w, [l EXCEPT !.exc = e], "except")
    /\ IF pc[w] \in WithBlock THEN cleanup(TmpDir(w)) ELSE UNCHANGED <<dirs, files>>

RedisError == Exc("ConnectionError", "Error connecting to Redis")

\* A call of _update as the run's history keeps it.
Reported(fields, outcome) == [fields |-> fields, outcome |-> outcome]

\* A call _update(task_id, **fields) at position `here`.
Report(w, here, fields, next) ==
    /\ pc[w] = here
    /\ \E o \in RedisOutcomes :
          /\ reports' = [reports EXCEPT ![w] = Append(@, Reported(fields, o))]
          /\ _update(loc[w].task_id, fields, o)
          /\ IF o = "ok"
             THEN Goto(w, loc[w], next) /\ UNCHANGED <<dirs, files>>
             ELSE Raise(w, loc[w], RedisError)
    /\ UNCHANGED <<calls, validated, OCR_EXEC, pdf, platform, quota>>


(***************************************************************************)
(* The binaries resolved when the module is imported (lines 111-112).      *)
(* GS_EXEC is always a path: the import fails without Ghostscript.         *)
(***************************************************************************)
GS_EXEC(system) ==
    IF system = "Windows"
    THEN [sep |-> "\\", parts |-> <<"C:", "gs", "bin", "gswin64c.exe">>]
    ELSE [sep |-> "/", parts |-> <<"", "usr", "bin", "gs">>]
OcrPath == "/usr/bin/ocrmypdf"

\* A stage invoked on the file at path inp: what the file held then,
\* whether _validate_file had accepted it, and whether the stage returned.
Call(w, stage, inp, ok) ==
    [stage |-> stage, inp |-> inp.parts,
     insize |-> IF path_exists(inp) THEN path_getsize(inp) ELSE -1,
     checked |-> Len(inp.parts) = 2 /\ inp.parts[2] \in validated[w],
     ok |-> ok]

Invoked(w, c) ==
    /\ calls' = [calls EXCEPT ![w] = Append(@, c)]
    /\ UNCHANGED <<reports, validated, store, published, OCR_EXEC, pdf, platform, quota>>

\* A file of the given size appears at path (no file for size -1).
WriteFile(path, size) ==
    /\ files' = [files EXCEPT ![path.parts[1]][path.parts[2]] = size]
    /\ UNCHANGED dirs

\* What an external call can leave behind: -2 stands for the call raising,
\* -1 for no file, otherwise the size of the file written.
ToolResults == -2..MaxSize

(***************************************************************************)
(* compress_pdf_task, statement by statement.                              *)
(***************************************************************************)
\* Lines 116-120: the task is invoked and picks its profile.
Invoke(w) ==
    /\ pc[w] \in {"idle"} \cup Ended
    /\ quota[w] > 0
    /\ \E task_id \in Jobs, compression_level \in LevelNames :
          loc' = [loc EXCEPT ![w] =
                    [InitLoc EXCEPT !.task_id = task_id,
                                    !.arg_level = compression_level,
                                    !.compression_level = effective_level(compression_level),
                                    !.cfg = LEVELS[effective_level(compression_level)]]]
    /\ pc' = [pc EXCEPT ![w] = "report5"]
    /\ quota' = [quota EXCEPT ![w] = @ - 1]
    /\ reports' = [reports EXCEPT ![w] = <<>>]
    /\ calls' = [calls EXCEPT ![w] = <<>>]
    /\ validated' = [validated EXCEPT ![w] = {}]
    /\ UNCHANGED <<store, published, dirs, files, OCR_EXEC, pdf, platform>>

\* Line 122
ReportProcessing(w) == Report(w, "report5", FieldsProcessing, "download")

\* The length check comparing with the wrong bound.
download_is_negative(orig_size) == orig_size < 0

\* The task without the length check.
download_unchecked(orig_size) == FALSE

\* Line 130: a payload of length 0 is refused.
download_is_empty(orig_size) == orig_size = 0

\* Lines 125-131: the download, and the check of its length.
Download(w) ==
    /\ pc[w] = "download"
    /\ \E r \in {-2} \cup (0..MaxSize) :
          /\ Invoked(w, Call(w, "download", NoPath, r >= 0))
          /\ IF r = -2
             THEN Raise(w, loc[w], Exc("HTTPError", "download failed"))
             ELSE LET l == [loc[w] EXCEPT !.orig_size = r] IN
                  IF download_is_empty(l.orig_size)
                  THEN Raise(w, l, Exc("ValueError", "Source file download is 0 bytes."))
                  ELSE Goto(w, l, "report20") /\ UNCHANGED <<dirs, files>>

\* Line 133
ReportDownloaded(w) == Report(w, "report20", FieldsDownloaded, "mkdtemp")

\* A staging directory under one fixed name, made if it is not there.
MakeStagingShared(w) ==
    /\ pc[w] = "mkdtemp"
    /\ LET d == "tmpA"
           tmp == DirPath(d, platform[w])
       IN /\ dirs' = dirs \cup {d}
          /\ UNCHANGED files
          /\ Goto(w, [loc[w] EXCEPT !.tmp = tmp,
                                    !.src = path_join(tmp, "src.pdf"),
                                    !.p1 = path_join(tmp, "p1.pdf"),
                                    !.p2 = path_join(tmp, "p2.pdf"),
                                    !.out = path_join(tmp, "out.pdf")],
                  "write")
    /\ UNCHANGED <<reports, calls, validated, store, published, OCR_EXEC, pdf, platform, quota>>

\* Lines 135-140: a new directory under a name not in use, and the four paths.
MakeStaging(w) ==
    /\ pc[w] = "mkdtemp"
    /\ \E d \in (DirNames \ dirs) \cup {None} :
          IF d = None
          THEN Raise(w, loc[w], Exc("OSError", "No usable temporary directory"))
          ELSE LET tmp == DirPath(d, platform[w]) IN
               /\ dirs' = dirs \cup {d}
               /\ files' = [files EXCEPT ![d] = NoFiles]
               /\ Goto(w, [loc[w] EXCEPT !.tmp = tmp,
                                         !.src = path_join(tmp, "src.pdf"),
                                         !.p1 = path_join(tmp, "p1.pdf"),
                                         !.p2 = path_join(tmp, "p2.pdf"),
                                         !.out = path_join(tmp, "out.pdf")],
                       "write")
    /\ UNCHANGED <<reports, calls, validated, store, published, OCR_EXEC, pdf, platform, quota>>

\* Lines 143-144: the payload is written to src.
WriteSource(w) ==
    /\ pc[w] = "write"
    /\ \E ok \in BOOLEAN :
          IF ok
          THEN WriteFile(loc[w].src, loc[w].orig_size) /\ Goto(w, loc[w], "validate_src")
          ELSE Raise(w, loc[w], Exc("OSError", "write failed"))
    /\ UNCHANGED <<reports, calls, validated, store, published, OCR_EXEC, pdf, platform, quota>>

\* A call of _validate_file at position `here`; when it returns, the run
\* goes on at `next` with locals l.
Validate(w, here, path, step_name, l, next) ==
    /\ pc[w] = here
    /\ LET r == _validate_file(path, step_name) IN
       IF r.raises = NoExc
       THEN /\ validated' = [validated EXCEPT ![w] = @ \cup {path.parts[2]}]
            /\ Goto(w, l, next)
            /\ UNCHANGED <<dirs, files>>
       ELSE /\ UNCHANGED validated
            /\ Raise(w, loc[w], r.raises)
    /\ UNCHANGED <<reports, calls, store, published, OCR_EXEC, pdf, platform, quota>>

\* Line 145
ValidateSource(w) ==
    Validate(w, "validate_src", loc[w].src, "Download", loc[w], "report30")

\* Line 147
ReportStaged(w) == Report(w, "report30", FieldsStaged, "preprocess")

\* Line 151: pikepdf opens the source.
OpenSource(w) ==
    /\ pc[w] = "preprocess"
    /\ \E ok \in BOOLEAN :
          /\ calls' = [calls EXCEPT ![w] = Append(@, Call(w, "pikepdf", loc[w].src, ok))]
          /\ IF ok
             THEN /\ \E doc \in Docs : pdf' = [pdf EXCEPT ![w] = [open |-> TRUE, pages |-> doc]]
                  /\ Goto(w, loc[w], "classify")
                  /\ UNCHANGED <<dirs, files>>
             ELSE /\ Raise(w, loc[w], Exc("PdfError", "open failed"))
                  /\ UNCHANGED pdf
    /\ UNCHANGED <<reports, validated, store, published, OCR_EXEC, platform, quota>>

\* Line 152: scanned = _is_scanned(pdf)
Classify(w) ==
    /\ pc[w] = "classify"
    /\ Goto(w, [loc[w] EXCEPT !.scanned = _is_scanned(pdf[w].pages, SampleSize)], "save")
    /\ UNCHANGED <<reports, calls, validated, store, published, dirs, files,
                   OCR_EXEC, pdf, platform, quota>>

\* Line 153: pdf.save(p1); the document is closed as its with block ends.
SavePreprocessed(w) ==
    /\ pc[w] = "save"
    /\ pdf' = [pdf EXCEPT ![w] = NoPdf]
    /\ \E r \in ToolResults :
          IF r = -2
          THEN Raise(w, loc[w], Exc("PdfError", "save failed"))
          ELSE WriteFile(loc[w].p1, r) /\ Goto(w, loc[w], "validate_p1")
    /\ UNCHANGED <<reports, calls, validated, store, published, OCR_EXEC, platform, quota>>

\* The OCR decision without the classifier's answer, and without the binary.
ocr_if_found(scanned, ocr_exec) == ocr_exec # None
ocr_if_scanned(scanned, ocr_exec) == scanned

\* Line 159: the OCR stage runs for a scanned document when ocrmypdf was found.
ocr_wanted(scanned, ocr_exec) == scanned /\ ocr_exec # None

\* Lines 155-159
ValidatePikepdf(w) ==
    LET l == [loc[w] EXCEPT !.p2_in = loc[w].p1]
        next == IF ocr_wanted(l.scanned, OCR_EXEC[w]) THEN "report45" ELSE "report70"
    IN Validate(w, "validate_p1", loc[w].p1, "Pikepdf", l, next)

\* Line 160
ReportOcr(w) == Report(w, "report45", FieldsOcr, "ocr")

\* Lines 161-171
ocr_command(ocr_exec, cfg, p1, p2) ==
    <<ocr_exec, "--skip-text", "--optimize", "2",
      "--jpeg-quality", ToString(cfg.jpeg_q),
      "--image-dpi", ToString(cfg.dpi),
      cfg.jbig2, "--output-type", "pdf", PathStr(p1), PathStr(p2)>>

\* Lines 161-172: ocrmypdf reads p1 and writes p2.
RunOcr(w) ==
    /\ pc[w] = "ocr"
    /\ \E r \in ToolResults :
          LET l == [loc[w] EXCEPT !.ocr_cmd = ocr_command(OCR_EXEC[w], loc[w].cfg,
                                                           loc[w].p1, loc[w].p2)] IN
          /\ Invoked(w, Call(w, "ocr", l.p1, r # -2))
          /\ IF r = -2
             THEN Raise(w, l, Exc("CalledProcessError", "ocrmypdf returned non-zero exit status"))
             ELSE WriteFile(l.p2, r) /\ Goto(w, l, "validate_p2")

\* Lines 173-174
ValidateOcr(w) ==
    LET l == [loc[w] EXCEPT !.p2_in = loc[w].p2]
    IN Validate(w, "validate_p2", loc[w].p2, "OCR", l, "report70")

\* Line 177
ReportCompress(w) == Report(w, "report70", FieldsCompress, "gs")

\* Lines 180-195
gs_command(cfg, p2_in, out, system) ==
    LET gs_input == _safe_path(p2_in, system)
        gs_output == _safe_path(out, system)
        gs_exe == _safe_path(GS_EXEC(system), system)
    IN <<PathStr(gs_exe), "-sDEVICE=pdfwrite", "-dCompatibilityLevel=1.4",
         "-dPDFSETTINGS=" \o cfg.gs, "-dNOPAUSE", "-dQUIET", "-dBATCH", "-dSAFER",
         "-sOutputFile=" \o PathStr(gs_output), PathStr(gs_input)>>

\* Lines 180-198: Ghostscript reads p2_in and writes out.
RunGhostscript(w) ==
    /\ pc[w] = "gs"
    /\ \E r \in ToolResults :
          LET l == [loc[w] EXCEPT !.gs_cmd = gs_command(loc[w].cfg, loc[w].p2_in, loc[w].out,
                                                         platform[w])] IN
          /\ Invoked(w, Call(w, "gs", _safe_path(l.p2_in, platform[w]), r # -2))
          /\ IF r = -2
             THEN Raise(w, l, Exc("CalledProcessError", "gs returned non-zero exit status"))
             ELSE WriteFile(l.out, r) /\ Goto(w, l, "validate_out")

\* Lines 201-204: the output is validated and the ratio computed; the
\* division raises ZeroDivisionError for a divisor of 0.
ValidateOutput(w) ==
    LET r == _validate_file(loc[w].out, "Ghostscript")
        final_size == r.size
        l == [loc[w] EXCEPT !.final_size = final_size,
                            !.ratio = savings_ratio(final_size, loc[w].orig_size)]
    IN IF r.raises = NoExc /\ loc[w].orig_size = 0
       THEN /\ pc[w] = "validate_out"
            /\ validated' = [validated EXCEPT ![w] = @ \cup {"out.pdf"}]
            /\ Raise(w, [loc[w] EXCEPT !.final_size = final_size],
                     Exc("ZeroDivisionError", "division by zero"))
            /\ UNCHANGED <<reports, calls, store, published, OCR_EXEC, pdf, platform, quota>>
       ELSE Validate(w, "validate_out", loc[w].out, "Ghostscript", l, "report85")

\* Line 205
ReportMeasured(w) == Report(w, "report85", FieldsMeasured, "upload")

SecureUrl == "https://res.cloudinary.com/mediaforge/pdf_compressed/out.pdf"

\* Lines 210-219: the upload; on return the with block ends and cleans up.
Upload(w) ==
    /\ pc[w] = "upload"
    /\ \E ok \in BOOLEAN :
          /\ Invoked(w, Call(w, "upload", loc[w].out, ok))
          /\ IF ok
             THEN /\ Goto(w, [loc[w] EXCEPT !.cloud_url = SecureUrl], "report100")
                  /\ cleanup(TmpDir(w))
             ELSE Raise(w, loc[w], Exc("UploadError", "upload failed"))

\* Lines 222-232: the final report, then the URL is returned.
ReportCompleted(w) ==
    /\ pc[w] = "report100"
    /\ \E o \in RedisOutcomes :
          /\ reports' = [reports EXCEPT ![w] = Append(@, Reported(FieldsCompleted(loc[w]), o))]
          /\ _update(loc[w].task_id, FieldsCompleted(loc[w]), o)
          /\ IF o = "ok"
             THEN Goto(w, [loc[w] EXCEPT !.result = loc[w].cloud_url], "returned")
                  /\ UNCHANGED <<dirs, files>>
             ELSE Raise(w, loc[w], RedisError)
    /\ UNCHANGED <<calls, validated, OCR_EXEC, pdf, platform, quota>>

\* An except clause that reports the failure and then has the task run
\* again from its first statement, as self.retry() would.
HandleFailureRetrying(w) ==
    /\ pc[w] = "except"
    /\ \E o \in RedisOutcomes :
          /\ reports' = [reports EXCEPT ![w] = Append(@, Reported(FieldsFailed(loc[w].exc), o))]
          /\ _update(loc[w].task_id, FieldsFailed(loc[w].exc), o)
          /\ Goto(w, [InitLoc EXCEPT !.task_id = loc[w].task_id,
                                      !.arg_level = loc[w].arg_level,
                                      !.compression_level = loc[w].compression_level,
                                      !.cfg = loc[w].cfg],
                  "report5")
    /\ UNCHANGED <<dirs, files, calls, validated, OCR_EXEC, pdf, platform, quota>>

\* Lines 234-240: the failure is reported and raised again; when the report
\* itself raises, that exception leaves the task instead.
HandleFailure(w) ==
    /\ pc[w] = "except"
    /\ \E o \in RedisOutcomes :
          /\ reports' = [reports EXCEPT ![w] = Append(@, Reported(FieldsFailed(loc[w].exc), o))]
          /\ _update(loc[w].task_id, FieldsFailed(loc[w].exc), o)
          /\ Goto(w, [loc[w] EXCEPT !.raised = IF o = "ok" THEN loc[w].exc ELSE RedisError],
                  "raised")
    /\ UNCHANGED <<dirs, files, calls, validated, OCR_EXEC, pdf, platform, quota>>

(***************************************************************************)
(* The specification: one worker process runs one task.                    *)
(***************************************************************************)
\* tasks[w] is the number of tasks worker w is handed; a worker that is
\* handed none is not started.
InitWith(tasks) ==
    /\ quota = tasks
    /\ pc = [w \in Workers |-> "idle"]
    /\ loc = [w \in Workers |-> InitLoc]
    /\ reports = [w \in Workers |-> <<>>]
    /\ calls = [w \in Workers |-> <<>>]
    /\ validated = [w \in Workers |-> {}]
    /\ store = [j \in Jobs |-> <<>>]
    /\ published = [c \in Channels |-> <<>>]
    /\ dirs = {}
    /\ files = [d \in DirNames |-> NoFiles]
    /\ OCR_EXEC \in [Workers -> {None, OcrPath}]
    /\ platform \in [Workers -> Systems]
    /\ \A w \in Workers : tasks[w] = 0 => OCR_EXEC[w] = None /\ platform[w] = "Linux"
    /\ pdf = [w \in Workers |-> NoPdf]

Init == InitWith([w \in Workers |-> IF w = "w1" THEN 1 ELSE 0])

Next ==
    \E w \in Workers :
        \/ Invoke(w)
        \/ ReportProcessing(w)
        \/ Download(w)
        \/ ReportDownloaded(w)
        \/ MakeStaging(w)
        \/ WriteSource(w)
        \/ ValidateSource(w)
        \/ ReportStaged(w)
        \/ OpenSource(w)
        \/ Classify(w)
        \/ SavePreprocessed(w)
        \/ ValidatePikepdf(w)
        \/ ReportOcr(w)
        \/ RunOcr(w)
        \/ ValidateOcr(w)
        \/ ReportCompress(w)
        \/ RunGhostscript(w)
        \/ ValidateOutput(w)
        \/ ReportMeasured(w)
        \/ Upload(w)
        \/ ReportCompleted(w)
        \/ HandleFailure(w)

Spec == Init /\ [][Next]_vars

(***************************************************************************)
(* What a run has done, read off its history.                              *)
(***************************************************************************)
\* The progress values passed to _update, in order.
ProgressValues(w) ==
    LET with_progress == SelectSeq(reports[w], LAMBDA r : "progress" \in DOMAIN r.fields)
    IN [i \in 1..Len(with_progress) |-> with_progress[i].fields.progress.v]

NonDecreasing(seq) == \A i \in 1..(Len(seq) - 1) : seq[i] <= seq[i + 1]

CallsOf(w, stage) == {i \in DOMAIN calls[w] : calls[w][i].stage = stage}
StageInvoked(w, stage) == CallsOf(w, stage) # {}
StageSucceeded(w, stage) == \E i \in CallsOf(w, stage) : calls[w][i].ok
StagesOf(w) == [i \in DOMAIN calls[w] |-> calls[w][i].stage]

LastReport(w) == reports[w][Len(reports[w])]
Record(w) == store[loc[w].task_id]
RecordHas(w, k, v) == k \in DOMAIN Record(w) /\ Record(w)[k] = v
TmpCreated(w) == Len(loc[w].tmp.parts) = 1

\* A step of the run has raised: a stage, a validation or a state report.
FailureSeen(w) ==
    \/ \E i \in DOMAIN calls[w] : ~ calls[w][i].ok
    \/ \E i \in DOMAIN reports[w] : reports[w][i].outcome # "ok"
    \/ loc[w].exc # NoExc

(***************************************************************************)
(* C1.  In every run the progress values passed to the state reporter never *)
(* decrease from one report to the next, and in a run whose stages have    *)
(* all succeeded (the upload returned) the last progress value reported is *)
(* 100.                                                                    *)
(***************************************************************************)
C1_ProgressMonotonic ==
    \A w \in Workers :
        /\ NonDecreasing(ProgressValues(w))
        /\ pc[w] \in Ended /\ StageSucceeded(w, "upload")
              => /\ Len(ProgressValues(w)) > 0
                 /\ ProgressValues(w)[Len(ProgressValues(w))] = 100

\* A run with the OCR stage has returned after reporting 5, 20, ..., 100.
C1_Witness ==
    \E w \in Workers :
        /\ pc[w] = "returned"
        /\ ProgressValues(w) = <<5, 20, 30, 45, 70, 85, 100>>

(***************************************************************************)
(* C2, as stated.  Every run that ends in failure has recorded             *)
(* status=failed and an error message in the job's record and raises the   *)
(* failure it caught.                                                      *)
(***************************************************************************)
C2_Original ==
    \A w \in Workers :
        pc[w] = "raised"
           => /\ RecordHas(w, "status", "failed")
              /\ "error" \in DOMAIN Record(w)
              /\ loc[w].raised = loc[w].exc

(***************************************************************************)
(* C2, amended.  No failure is swallowed: once a stage, a validation or a  *)
(* state report has raised, the run is in its except clause or has raised  *)
(* to the caller, and a run ends only by returning the URL or by raising.  *)
(* A run that ends in failure has reported status=failed with the message  *)
(* of the failure it caught; the record holds both unless the store write  *)
(* of that report raised; the caller gets the failure caught when that     *)
(* report succeeded, and the report's own failure otherwise.               *)
(***************************************************************************)
C2_FailureReportedAndRaised ==
    \A w \in Workers :
        /\ FailureSeen(w) => pc[w] \in {"except", "raised"}
        /\ pc[w] = "returned"
              => loc[w].result = SecureUrl /\ loc[w].raised = NoExc
        /\ pc[w] = "raised"
              => LET r == LastReport(w)
                     e == loc[w].exc
                     message == (IF e.type = "CalledProcessError"
                                 THEN "Process Error: " ELSE "Worker Error: ") \o e.msg
                 IN /\ e # NoExc
                    /\ loc[w].result = None
                    /\ DOMAIN r.fields = {"status", "error"}
                    /\ r.fields.status = PyStr("failed")
                    /\ r.fields.error = PyStr(message)
                    /\ loc[w].raised = IF r.outcome = "ok" THEN e ELSE RedisError
                    /\ r.outcome # "hset_raises"
                          => RecordHas(w, "status", "failed") /\ RecordHas(w, "error", message)

\* Ghostscript exited non-zero; the failure is in the record and was raised.
C2_Witness ==
    \E w \in Workers :
        /\ pc[w] = "raised"
        /\ loc[w].raised.type = "CalledProcessError"
        /\ StageInvoked(w, "gs")
        /\ RecordHas(w, "status", "failed")
        /\ RecordHas(w, "error", "Process Error: gs returned non-zero exit status")

(***************************************************************************)
(* C3.  In a run that ends in failure no report that reached the store     *)
(* carries a result_url, and a record left with status=failed holds no     *)
(* result_url.                                                             *)
(***************************************************************************)
C3_NoResultUrlOnFailure ==
    \A w \in Workers :
        pc[w] = "raised"
           => /\ \A i \in DOMAIN reports[w] :
                    reports[w][i].outcome # "hset_raises"
                       => "result_url" \notin DOMAIN reports[w][i].fields
              /\ RecordHas(w, "status", "failed") => "result_url" \notin DOMAIN Record(w)

(***************************************************************************)
(* C4.  Outside the with block the staging directory of the run does not   *)
(* exist and none of its artifacts does; when every run has ended no       *)
(* temporary directory is left at all.                                     *)
(***************************************************************************)
C4_StagingRemoved ==
    /\ \A w \in Workers :
          pc[w] \notin WithBlock /\ TmpCreated(w)
             => /\ TmpDir(w) \notin dirs
                /\ \A a \in Artifacts : files[TmpDir(w)][a] = -1
                /\ \A a \in {"src", "p1", "p2", "out"} : ~ path_exists(loc[w][a])
    /\ (\A w \in Workers : pc[w] \in Ended \cup {"idle"})
          => dirs = {} /\ \A d \in DirNames : files[d] = NoFiles

\* The upload failed after src, p1, p2 and out had all been written.
C4_Witness ==
    \E w \in Workers :
        /\ pc[w] = "raised"
        /\ TmpCreated(w)
        /\ loc[w].exc.type = "UploadError"
        /\ StageSucceeded(w, "ocr")

(***************************************************************************)
(* C5.  Every stage is invoked on an artifact of the run's own directory   *)
(* that _validate_file had accepted before the invocation and that is a    *)
(* non-empty file at the invocation: pikepdf on src, ocrmypdf on p1,       *)
(* Ghostscript on p1 or p2, the upload on out.                             *)
(***************************************************************************)
C5_ValidatedBeforeUse ==
    \A w \in Workers :
        \A i \in DOMAIN calls[w] :
            LET c == calls[w][i] IN
            c.stage # "download"
               => /\ c.checked
                  /\ c.insize > 0
                  /\ c.inp = <<TmpDir(w), CASE c.stage = "pikepdf" -> "src.pdf"
                                            [] c.stage = "ocr" -> "p1.pdf"
                                            [] c.stage = "gs" ->
                                                 IF StageInvoked(w, "ocr") THEN "p2.pdf"
                                                                           ELSE "p1.pdf"
                                            [] c.stage = "upload" -> "out.pdf">>

\* Every stage has run, the OCR stage included.
C5_Witness ==
    \E w \in Workers :
        /\ pc[w] = "returned"
        /\ StagesOf(w) = <<"download", "pikepdf", "ocr", "gs", "upload">>

(***************************************************************************)
(* C6.  The four calls of _validate_file: the artifact each one checks and *)
(* the step name it passes.                                                *)
(***************************************************************************)
ValidationAt ==
    [validate_src |-> [artifact |-> "src.pdf", step |-> "Download"],
     validate_p1  |-> [artifact |-> "p1.pdf",  step |-> "Pikepdf"],
     validate_p2  |-> [artifact |-> "p2.pdf",  step |-> "OCR"],
     validate_out |-> [artifact |-> "out.pdf", step |-> "Ghostscript"]]

(***************************************************************************)
(* C6.  Every call of _validate_file, at each of the four transitions,     *)
(* raises FileNotFoundError when the artifact does not exist, raises       *)
(* RuntimeError when it exists with size 0, and otherwise accepts it and   *)
(* returns its size, which is greater than 0 (the Ghostscript transition   *)
(* keeps it as final_size); and once a run is in its except clause it      *)
(* invokes no further stage.                                               *)
(***************************************************************************)
C6_ValidateFile ==
    [][\A w \in Workers :
         /\ pc[w] \in DOMAIN ValidationAt /\ pc'[w] # pc[w]
               => LET v == ValidationAt[pc[w]]
                      d == TmpDir(w)
                      exists == d \in dirs /\ files[d][v.artifact] >= 0
                      size == files[d][v.artifact]
                      name == d \o os_sep(platform[w]) \o v.artifact
                  IN /\ ~ exists
                          => /\ pc'[w] = "except"
                             /\ loc'[w].exc = Exc("FileNotFoundError",
                                    "[" \o v.step \o "] File not found: " \o name)
                     /\ exists /\ size = 0
                          => /\ pc'[w] = "except"
                             /\ loc'[w].exc = Exc("RuntimeError",
                                    "[" \o v.step \o "] Generated file is 0 bytes: " \o name)
                     /\ exists /\ size > 0
                          => /\ pc'[w] \in {"report30", "report45", "report70", "report85"}
                             /\ loc'[w].exc = NoExc
                             /\ v.artifact \in validated'[w]
                             /\ pc[w] = "validate_out" => loc'[w].final_size = size
                     /\ pc'[w] = "except" => v.artifact \notin validated'[w]
         /\ pc[w] \in {"except", "raised"} /\ pc'[w] \in {"except", "raised"}
               => calls'[w] = calls[w]
      ]_vars

\* ocrmypdf exited with status 0 and left an empty p2: RuntimeError, and
\* Ghostscript was never invoked.
C6_Witness ==
    \E w \in Workers :
        /\ pc[w] = "raised"
        /\ loc[w].exc.type = "RuntimeError"
        /\ StagesOf(w) = <<"download", "pikepdf", "ocr">>

(***************************************************************************)
(* C7, as stated.  A run whose download has length 0 ends with the job's   *)
(* status failed, with no staging directory created, no artifact written   *)
(* and no progress above 5 reported.                                       *)
(***************************************************************************)
C7_Original ==
    \A w \in Workers :
        pc[w] \in Ended /\ loc[w].orig_size = 0
           => /\ pc[w] = "raised"
              /\ ~ TmpCreated(w)
              /\ \A i \in DOMAIN ProgressValues(w) : ProgressValues(w)[i] <= 5
              /\ RecordHas(w, "status", "failed")

(***************************************************************************)
(* C7, amended.  When the download has length 0 the run raises ValueError  *)
(* right after the download: it creates no staging directory, sets no      *)
(* artifact path, invokes no further stage and reports no progress above   *)
(* 5; it ends by reporting status=failed with the download error and       *)
(* raising, and the record holds status=failed unless the store write of   *)
(* that report raised.                                                     *)
(***************************************************************************)
C7_ZeroByteDownload ==
    \A w \in Workers :
        loc[w].orig_size = 0
           => /\ pc[w] \in {"except", "raised"}
              /\ loc[w].exc = Exc("ValueError", "Source file download is 0 bytes.")
              /\ ~ TmpCreated(w)
              /\ \A a \in {"src", "p1", "p2", "out"} : loc[w][a] = NoPath
              /\ (\A v \in Workers \ {w} : pc[v] = "idle")
                    => dirs = {} /\ \A d \in DirNames : files[d] = NoFiles
              /\ StagesOf(w) = <<"download">>
              /\ \A i \in DOMAIN ProgressValues(w) : ProgressValues(w)[i] <= 5
              /\ pc[w] = "raised"
                    => /\ LastReport(w).fields =
                             [status |-> PyStr("failed"),
                              error |-> PyStr("Worker Error: Source file download is 0 bytes.")]
                       /\ LastReport(w).outcome # "hset_raises"
                             => RecordHas(w, "status", "failed")

\* A zero-byte download has ended with status=failed in the record.
C7_Witness ==
    \E w \in Workers :
        /\ pc[w] = "raised"
        /\ loc[w].orig_size = 0
        /\ RecordHas(w, "status", "failed")
        /\ RecordHas(w, "progress", "5")

(***************************************************************************)
(* C8.  What the OCR stage of a run has done.                              *)
(***************************************************************************)
OcrSucceeded(w) == StageSucceeded(w, "ocr") /\ "p2.pdf" \in validated[w]
OcrResolved(w) == OCR_EXEC[w] # None
OcrReached(w) ==
    /\ "p1.pdf" \in validated[w]
    /\ \E i \in DOMAIN reports[w] :
          reports[w][i].fields = [progress |-> PyInt(45)] /\ reports[w][i].outcome = "ok"

\* The artifact every invocation of Ghostscript in the run was given.
GsInputIs(w, artifact) ==
    \A i \in CallsOf(w, "gs") : calls[w][i].inp = <<TmpDir(w), artifact>>

(***************************************************************************)
(* C8, as stated.  In a run that has ended the OCR stage was invoked if    *)
(* and only if the classifier returned scanned and an OCR binary was       *)
(* resolved, and Ghostscript read p2 exactly when the OCR stage ran and    *)
(* succeeded, p1 otherwise.                                                *)
(***************************************************************************)
C8_Original ==
    \A w \in Workers :
        pc[w] \in Ended
           => /\ StageInvoked(w, "ocr") <=> (loc[w].scanned /\ OcrResolved(w))
              /\ GsInputIs(w, IF OcrSucceeded(w) THEN "p2.pdf" ELSE "p1.pdf")

(***************************************************************************)
(* C8, amended.  The OCR stage is invoked only if the classifier returned  *)
(* scanned and an OCR binary was resolved, and in a run that has ended it  *)
(* was invoked if and only if, in addition, the run got as far as the OCR  *)
(* stage: p1 was validated and the progress=45 report succeeded.           *)
(* Ghostscript reads p2 exactly when the OCR stage ran and succeeded, and  *)
(* p1 in every other run that reaches compression.                         *)
(***************************************************************************)
C8_OcrCondition ==
    \A w \in Workers :
        /\ StageInvoked(w, "ocr") => loc[w].scanned /\ OcrResolved(w) /\ OcrReached(w)
        /\ pc[w] \in Ended \cup {"except"}
              => (StageInvoked(w, "ocr")
                     <=> (loc[w].scanned /\ OcrResolved(w) /\ OcrReached(w)))
        /\ StageInvoked(w, "gs") /\ loc[w].scanned /\ OcrResolved(w) => OcrSucceeded(w)
        /\ GsInputIs(w, IF OcrSucceeded(w) THEN "p2.pdf" ELSE "p1.pdf")
        /\ pc[w] \in {"report70", "gs"}
              => loc[w].p2_in.parts =
                    <<TmpDir(w), IF OcrSucceeded(w) THEN "p2.pdf" ELSE "p1.pdf">>

\* The OCR stage ran and Ghostscript was given its output.
C8_Witness ==
    \E w \in Workers :
        /\ pc[w] = "returned"
        /\ loc[w].scanned /\ OcrResolved(w)
        /\ OcrSucceeded(w)
        /\ StageInvoked(w, "gs") /\ GsInputIs(w, "p2.pdf")

\* The report of status=completed was made and both its Redis calls returned.
CompletedReportOk(w) ==
    \E i \in DOMAIN reports[w] :
        /\ "status" \in DOMAIN reports[w][i].fields
        /\ reports[w][i].fields.status = PyStr("completed")
        /\ reports[w][i].outcome = "ok"

(***************************************************************************)
(* C9, as stated.  With no OCR binary and a scanned document, a run whose  *)
(* download, staging, pre-processing, compression and upload all succeeded *)
(* ends with status=completed and returns the URL, never having invoked    *)
(* the OCR stage.                                                          *)
(***************************************************************************)
C9_Original ==
    \A w \in Workers :
        pc[w] \in Ended /\ loc[w].scanned /\ ~ OcrResolved(w) /\ StageSucceeded(w, "upload")
           => /\ pc[w] = "returned"
              /\ loc[w].result = SecureUrl
              /\ RecordHas(w, "status", "completed")
              /\ ~ StageInvoked(w, "ocr")

(***************************************************************************)
(* C9, amended.  With no OCR binary and a scanned document the OCR stage   *)
(* is never invoked, no progress of 45 is reported and Ghostscript reads   *)
(* p1; a run whose download, staging, pre-processing, compression and      *)
(* upload all succeeded and whose status=completed report succeeded too    *)
(* ends with status=completed and the URL in the record and returns the    *)
(* URL, having invoked download, pikepdf, Ghostscript and the upload only. *)
(***************************************************************************)
C9_DegradedPath ==
    \A w \in Workers :
        loc[w].scanned /\ ~ OcrResolved(w)
           => /\ ~ StageInvoked(w, "ocr")
              /\ loc[w].ocr_cmd = <<>>
              /\ \A i \in DOMAIN ProgressValues(w) : ProgressValues(w)[i] # 45
              /\ GsInputIs(w, "p1.pdf")
              /\ (/\ pc[w] \in Ended
                  /\ StageSucceeded(w, "upload")
                  /\ CompletedReportOk(w))
                    => /\ pc[w] = "returned"
                       /\ loc[w].result = SecureUrl
                       /\ RecordHas(w, "status", "completed")
                       /\ RecordHas(w, "result_url", SecureUrl)
                       /\ StagesOf(w) = <<"download", "pikepdf", "gs", "upload">>
                       /\ ProgressValues(w) = <<5, 20, 30, 70, 85, 100>>

\* A scanned document on a host without ocrmypdf has completed.
C9_Witness ==
    \E w \in Workers :
        /\ pc[w] = "returned"
        /\ loc[w].scanned /\ ~ OcrResolved(w)
        /\ RecordHas(w, "status", "completed")

(***************************************************************************)
(* C10.  Right after the classifier has run on the open document: with n   *)
(* the smaller of 3 and the page count and k the number of the first n     *)
(* pages that have an image and no font resource, the answer is not        *)
(* scanned for n = 0 and otherwise scanned exactly when k / n >= 0.8; so 3 *)
(* of 3 is scanned and 2 of 3 is not, and no page after the third has any  *)
(* part in the answer.                                                     *)
(***************************************************************************)
C10_Classifier ==
    \A w \in Workers :
        pc[w] = "save"
           => LET doc == pdf[w].pages
                  n == IF Len(doc) < 3 THEN Len(doc) ELSE 3
                  k == Cardinality({i \in 1..n : doc[i].images >= 1 /\ ~ doc[i].font})
              IN /\ pdf[w].open
                 /\ n = 0 => ~ loc[w].scanned
                 /\ n > 0 => (loc[w].scanned <=> 10 * k >= 8 * n)
                 /\ n = 3 /\ k = 3 => loc[w].scanned
                 /\ n = 3 /\ k = 2 => ~ loc[w].scanned

\* A 4-page document, 2 of its first 3 pages scanned-like and the fourth
\* scanned-like too, was classified not scanned.
C10_Witness ==
    \E w \in Workers :
        /\ pc[w] = "save"
        /\ Len(pdf[w].pages) = 4
        /\ Cardinality({i \in 1..3 : pdf[w].pages[i].images >= 1 /\ ~ pdf[w].pages[i].font}) = 2
        /\ pdf[w].pages[4].images >= 1 /\ ~ pdf[w].pages[4].font
        /\ ~ loc[w].scanned

(***************************************************************************)
(* C11.  The profile a requested name stands for, and the parameters the   *)
(* two external commands of a run were built with.                         *)
(***************************************************************************)
ProfileOf(name) == IF name \in {"low", "medium", "high"} THEN name ELSE "medium"
Started(w) == pc[w] # "idle"

(***************************************************************************)
(* C11.  Whatever level name a run was invoked with, it holds exactly one  *)
(* profile from its first statement to its end: the profile of that name   *)
(* for "low", "medium" and "high", and the medium profile for any other    *)
(* name ("ultra", or "High", names being case-sensitive); the name alone   *)
(* never makes the run fail; and the ocrmypdf command and the Ghostscript  *)
(* command of the run, once built, carry the parameters of that one        *)
(* profile.                                                                *)
(***************************************************************************)
C11_OneProfile ==
    \A w \in Workers :
        Started(w)
           => LET name == ProfileOf(loc[w].arg_level)
                  profile == LEVELS[name]
              IN /\ loc[w].compression_level = name
                 /\ loc[w].cfg = profile
                 /\ loc[w].arg_level \notin {"low", "medium", "high"}
                       => loc[w].cfg = [dpi |-> 150, jpeg_q |-> 65,
                                        jbig2 |-> "--jbig2-lossless", gs |-> "/ebook"]
                 /\ pc[w] = "report5" => loc[w].exc = NoExc
                 /\ loc[w].ocr_cmd # <<>>
                       => /\ loc[w].ocr_cmd[6] = ToString(profile.jpeg_q)
                          /\ loc[w].ocr_cmd[8] = ToString(profile.dpi)
                          /\ loc[w].ocr_cmd[9] = profile.jbig2
                 /\ loc[w].gs_cmd # <<>>
                       => loc[w].gs_cmd[4] = "-dPDFSETTINGS=" \o profile.gs
                 /\ StageInvoked(w, "ocr") => loc[w].ocr_cmd # <<>>
                 /\ StageInvoked(w, "gs") => loc[w].gs_cmd # <<>>

\* A run invoked with "High" has completed, its OCR and its compression
\* both run with the medium profile.
C11_Witness ==
    \E w \in Workers :
        /\ pc[w] = "returned"
        /\ loc[w].arg_level = "High"
        /\ StagesOf(w) = <<"download", "pikepdf", "ocr", "gs", "upload">>
        /\ loc[w].ocr_cmd[6] = "65" /\ loc[w].ocr_cmd[8] = "150"
        /\ loc[w].gs_cmd[4] = "-dPDFSETTINGS=/ebook"

(***************************************************************************)
(* The end of a run on payloads of realistic sizes.  The specification     *)
(* starts where Ghostscript has just returned, in the run of a text        *)
(* document of o bytes compressed at the medium level into f bytes, and    *)
(* follows the code from line 201 to the end of the task.                  *)
(***************************************************************************)
SavingsSizes == {1, 400, 1000, 1024, 1500}

\* The state of such a run at line 201: worker w1, job1, directory tmpA.
AfterGhostscript(o, f) ==
    LET tmp == DirPath("tmpA", "Linux")
        l == [InitLoc EXCEPT !.task_id = "job1",
                             !.arg_level = "medium",
                             !.compression_level = "medium",
                             !.cfg = LEVELS["medium"],
                             !.orig_size = o,
                             !.tmp = tmp,
                             !.src = path_join(tmp, "src.pdf"),
                             !.p1 = path_join(tmp, "p1.pdf"),
                             !.p2 = path_join(tmp, "p2.pdf"),
                             !.out = path_join(tmp, "out.pdf"),
                             !.p2_in = path_join(tmp, "p1.pdf"),
                             !.gs_cmd = gs_command(LEVELS["medium"], path_join(tmp, "p1.pdf"),
                                                   path_join(tmp, "out.pdf"), "Linux")]
    IN /\ quota = [w \in Workers |-> 0]
       /\ pc = [w \in Workers |-> IF w = "w1" THEN "validate_out" ELSE "idle"]
       /\ loc = [w \in Workers |-> IF w = "w1" THEN l ELSE InitLoc]
       /\ reports = [w \in Workers |->
                        IF w = "w1"
                        THEN <<Reported(FieldsProcessing, "ok"), Reported(FieldsDownloaded, "ok"),
                               Reported(FieldsStaged, "ok"), Reported(FieldsCompress, "ok")>>
                        ELSE <<>>]
       /\ calls = [w \in Workers |->
                      IF w = "w1"
                      THEN <<[stage |-> "download", inp |-> <<>>, insize |-> -1,
                              checked |-> FALSE, ok |-> TRUE],
                             [stage |-> "pikepdf", inp |-> <<"tmpA", "src.pdf">>, insize |-> o,
                              checked |-> TRUE, ok |-> TRUE],
                             [stage |-> "gs", inp |-> <<"tmpA", "p1.pdf">>, insize |-> o,
                              checked |-> TRUE, ok |-> TRUE]>>
                      ELSE <<>>]
       /\ validated = [w \in Workers |-> IF w = "w1" THEN {"src.pdf", "p1.pdf"} ELSE {}]
       /\ store = [j \in Jobs |->
                      IF j = "job1" THEN [status |-> "processing", progress |-> "70"]
                      ELSE <<>>]
       /\ published = [c \in Channels |->
                          IF c = Channel("job1") THEN FieldsCompress ELSE <<>>]
       /\ dirs = {"tmpA"}
       /\ files = [d \in DirNames |->
                      IF d = "tmpA"
                      THEN [a \in Artifacts |->
                              CASE a = "src.pdf" -> o
                                [] a = "p1.pdf" -> o
                                [] a = "p2.pdf" -> -1
                                [] a = "out.pdf" -> f]
                      ELSE NoFiles]
       /\ OCR_EXEC = [w \in Workers |-> None]
       /\ platform = [w \in Workers |-> "Linux"]
       /\ pdf = [w \in Workers |-> NoPdf]

InitSavings == \E o \in SavingsSizes, f \in SavingsSizes : AfterGhostscript(o, f)

NextSavings ==
    \E w \in Workers :
        \/ ValidateOutput(w)
        \/ ReportMeasured(w)
        \/ Upload(w)
        \/ ReportCompleted(w)
        \/ HandleFailure(w)

SpecSavings == InitSavings /\ [][NextSavings]_vars

\* The same point of a run as the one-task specification reaches it.
AfterGhostscriptReached == AfterGhostscript(1, 2)

(***************************************************************************)
(* C12.  The texts that render, with one decimal, a value within half a    *)
(* tenth of 100 * (1 - f / o): the sign is "-" exactly when f > o.         *)
(***************************************************************************)
SavingTexts(o, f) ==
    LET a == 1000 * Abs(o - f)
        q == a \div o
        near == {t \in {q, q + 1} : 2 * Abs(a - t * o) <= o}
    IN {(IF f > o THEN "-" ELSE "") \o ToString(t \div 10) \o "." \o ToString(t % 10) \o "%" :
           t \in near}

\* The report of status=completed of the run, if it reached the store.
CompletedStored(w) ==
    \E i \in DOMAIN reports[w] :
        /\ "status" \in DOMAIN reports[w][i].fields
        /\ reports[w][i].fields.status = PyStr("completed")
        /\ reports[w][i].outcome # "hset_raises"

(***************************************************************************)
(* C12.  With o the size of the payload (the size of src when pikepdf read *)
(* it) and f the size of out that _validate_file accepted (its size when   *)
(* it was uploaded): the ratio of the run is 100 * (1 - f / o), never      *)
(* clamped, so it is negative exactly when f > o; and once the             *)
(* status=completed report has reached the store, the record's saving is   *)
(* that value with one decimal and a percent sign: "60.0%" for o = 1000    *)
(* and f = 400, "0.0%" for f = o, "-150.0%" for o = 400 and f = 1000.      *)
(***************************************************************************)
C12_Savings ==
    \A w \in Workers :
        StageInvoked(w, "upload")
           => LET o == calls[w][2].insize
                  f == calls[w][Len(calls[w])].insize
                  ratio == loc[w].ratio
              IN /\ calls[w][2].stage = "pikepdf" /\ calls[w][Len(calls[w])].stage = "upload"
                 /\ o = loc[w].orig_size /\ f = loc[w].final_size
                 /\ o > 0 /\ f > 0
                 /\ ratio.den > 0
                 /\ ratio.num * o = 100 * (o - f) * ratio.den
                 /\ (ratio.num < 0) <=> (f > o)
                 /\ CompletedStored(w)
                       => /\ "saving" \in DOMAIN Record(w)
                          /\ Record(w).saving \in SavingTexts(o, f)
                          /\ o = 1000 /\ f = 400 => Record(w).saving = "60.0%"
                          /\ o = f => Record(w).saving = "0.0%"
                          /\ o = 400 /\ f = 1000 => Record(w).saving = "-150.0%"
                          /\ f > o => Record(w).saving # "0.0%"

\* A completed run whose output is larger than its source: 400 bytes in,
\* 1000 bytes out, a saving of -150.0%.
C12_Witness ==
    \E w \in Workers :
        /\ pc[w] = "returned"
        /\ loc[w].orig_size = 400 /\ loc[w].final_size = 1000
        /\ RecordHas(w, "status", "completed")
        /\ RecordHas(w, "saving", "-150.0%")

(***************************************************************************)
(* Two worker processes run one task each, at the same time, for different *)
(* jobs.  To keep the interleavings within reach, the inputs are narrowed: *)
(* both hosts run Linux, both tasks ask for the medium level, payloads and *)
(* files hold at most one byte and documents at most one page.  Every      *)
(* failure of every step stays possible.                                   *)
(***************************************************************************)
JobOf(w) == IF w = "w1" THEN "job1" ELSE "job2"

SmallRun(w) ==
    /\ loc[w].task_id \in {None, JobOf(w)}
    /\ loc[w].arg_level \in {None, "medium"}
    /\ loc[w].orig_size <= 1
    /\ Len(pdf[w].pages) <= 1
    /\ \A d \in DirNames, a \in Artifacts : files[d][a] <= 1

Small == \A w \in Workers : SmallRun(w)

\* ocrmypdf is installed on the host of w1 or on neither host.
InitConcurrent ==
    /\ InitWith([w \in Workers |-> 1])
    /\ platform = [w \in Workers |-> "Linux"]
    /\ OCR_EXEC["w2"] = None

NextSmall ==
    \E w \in Workers :
        \/ Invoke(w) /\ Small'
        \/ ReportProcessing(w) /\ Small'
        \/ Download(w) /\ Small'
        \/ ReportDownloaded(w) /\ Small'
        \/ MakeStaging(w) /\ Small'
        \/ WriteSource(w) /\ Small'
        \/ ValidateSource(w) /\ Small'
        \/ ReportStaged(w) /\ Small'
        \/ OpenSource(w) /\ Small'
        \/ Classify(w) /\ Small'
        \/ SavePreprocessed(w) /\ Small'
        \/ ValidatePikepdf(w) /\ Small'
        \/ ReportOcr(w) /\ Small'
        \/ RunOcr(w) /\ Small'
        \/ ValidateOcr(w) /\ Small'
        \/ ReportCompress(w) /\ Small'
        \/ RunGhostscript(w) /\ Small'
        \/ ValidateOutput(w) /\ Small'
        \/ ReportMeasured(w) /\ Small'
        \/ Upload(w) /\ Small'
        \/ ReportCompleted(w) /\ Small'
        \/ HandleFailure(w) /\ Small'

SpecConcurrent == InitConcurrent /\ [][NextSmall]_vars

(***************************************************************************)
(* One worker process is handed two tasks for the same job, one after the  *)
(* other, with the same narrowed inputs.                                   *)
(***************************************************************************)
InitRerun ==
    /\ InitWith([w \in Workers |-> IF w = "w1" THEN 2 ELSE 0])
    /\ platform = [w \in Workers |-> "Linux"]

SpecRerun == InitRerun /\ [][NextSmall]_vars

(***************************************************************************)
(* C13.  The step in which worker w makes a report, and the report made.   *)
(***************************************************************************)
ReportsNow(w) == Len(reports'[w]) = Len(reports[w]) + 1
ReportMade(w) == reports'[w][Len(reports'[w])]

(***************************************************************************)
(* C13.  A report of worker w for job J with the given fields, when both   *)
(* its Redis calls return, leaves J's record with exactly the fields it    *)
(* had and the given ones, each given field holding the text of its value  *)
(* and every other field its old text, and leaves the given fields, as     *)
(* given, as the last message of channel progress:J.  Whether or not the   *)
(* calls return, the report changes no other job's record and publishes on *)
(* no other channel; when the store write raises nothing changes, and when *)
(* the publication raises the record is written and nothing is published.  *)
(* A step that is not a report changes no record and publishes nothing.    *)
(***************************************************************************)
C13_ReportFrame ==
    [][/\ \A w \in Workers :
             ReportsNow(w)
                => LET r == ReportMade(w)
                       J == loc[w].task_id
                       given == DOMAIN r.fields
                       merged ==
                           /\ DOMAIN store'[J] = DOMAIN store[J] \cup given
                           /\ \A k \in given :
                                  store'[J][k] = IF r.fields[k].t = "int"
                                                 THEN ToString(r.fields[k].v)
                                                 ELSE r.fields[k].v
                           /\ \A k \in DOMAIN store[J] \ given : store'[J][k] = store[J][k]
                   IN /\ J \in Jobs
                      /\ \A j \in Jobs \ {J} : store'[j] = store[j]
                      /\ \A j \in Jobs \ {J} :
                            published'["progress:" \o j] = published["progress:" \o j]
                      /\ r.outcome = "ok"
                            => merged /\ published'["progress:" \o J] = r.fields
                      /\ r.outcome = "publish_raises"
                            => merged /\ published' = published
                      /\ r.outcome = "hset_raises"
                            => store' = store /\ published' = published
       /\ (\A w \in Workers : ~ ReportsNow(w))
             => store' = store /\ published' = published
      ]_vars

\* While job2's record holds a failure, w1 has reported progress=20 for
\* job1: job1's status stays "processing" and job2's record is as it was.
C13_Witness ==
    /\ Len(reports["w1"]) = 2
    /\ reports["w1"][2] = Reported([progress |-> PyInt(20)], "ok")
    /\ store["job1"] = [status |-> "processing", progress |-> "20"]
    /\ published["progress:job1"] = [progress |-> PyInt(20)]
    /\ pc["w2"] = "raised"
    /\ "error" \in DOMAIN store["job2"]
    /\ "status" \in DOMAIN published["progress:job2"]

(***************************************************************************)
(* C14.  In every state of every job's record, whatever runs were made for *)
(* the job: a record whose status is completed holds no error field, and a *)
(* record that holds a result_url field has status completed.              *)
(***************************************************************************)
C14_UrlAndErrorByStatus ==
    \A j \in Jobs :
        /\ "status" \in DOMAIN store[j] /\ store[j].status = "completed"
              => "error" \notin DOMAIN store[j]
        /\ "result_url" \in DOMAIN store[j]
              => "status" \in DOMAIN store[j] /\ store[j].status = "completed"

(***************************************************************************)
(* C15.  The positions of a run at which the statement to execute calls    *)
(* out of the process (Redis, HTTP, the file system, pikepdf, ocrmypdf,    *)
(* Ghostscript, Cloudinary), and those at which it only computes or        *)
(* validates.                                                              *)
(***************************************************************************)
CallsOut == {"report5", "download", "report20", "mkdtemp", "write", "report30",
             "preprocess", "save", "report45", "ocr", "report70", "gs",
             "report85", "upload", "report100"}
ComputesOnly == {"validate_src", "classify", "validate_p1", "validate_p2", "validate_out"}

FailsNow(w) == ENABLED (Next /\ pc[w] # "except" /\ pc'[w] = "except")
MovesOn(w) == ENABLED (Next /\ pc'[w] \in CallsOut)

\* A failure can follow at once, or at the statement after.
FailedReachable ==
    \A w \in Workers :
        /\ pc[w] \in CallsOut => FailsNow(w)
        /\ pc[w] \in ComputesOnly => FailsNow(w) \/ MovesOn(w)

\* The run has stored status=completed or status=failed.
TerminalRecorded(w) ==
    \E i \in DOMAIN reports[w] :
        /\ "status" \in DOMAIN reports[w][i].fields
        /\ reports[w][i].fields.status.v \in {"completed", "failed"}
        /\ reports[w][i].outcome # "hset_raises"

(***************************************************************************)
(* C15.  From every position of a run before its end a failure can follow: *)
(* at once where the statement calls out of the process (before and after  *)
(* the download, after staging, in the OCR, compression and upload         *)
(* stages), and otherwise at once or at the statement after (after         *)
(* classification, at output validation).  And completed and failed are    *)
(* terminal: once a run has stored status=completed or status=failed, it   *)
(* stores no report carrying a status again.                               *)
(***************************************************************************)
C15_FailedReachableTerminal ==
    /\ []FailedReachable
    /\ [][\A w \in Workers :
             TerminalRecorded(w) /\ ReportsNow(w) /\ "status" \in DOMAIN ReportMade(w).fields
                => ReportMade(w).outcome = "hset_raises"
         ]_vars

(***************************************************************************)
(* C16.  The place of each stage in the pipeline.                          *)
(***************************************************************************)
StageRank ==
    [download |-> 1, pikepdf |-> 2, ocr |-> 3, gs |-> 4, upload |-> 5]

(***************************************************************************)
(* C16.  In one run every stage (download, pre-processing, OCR,            *)
(* compression, upload) is invoked at most once and in pipeline order; a   *)
(* stage that failed is the last stage the run invoked, and the run is     *)
(* then in its except clause or has raised, having reported status=failed  *)
(* at most once; and a run that has ended takes no further step: nothing   *)
(* retries it.                                                             *)
(***************************************************************************)
C16_NoRetry ==
    \A w \in Workers :
        /\ \A stage \in DOMAIN StageRank : Cardinality(CallsOf(w, stage)) <= 1
        /\ \A i \in DOMAIN calls[w], j \in DOMAIN calls[w] :
              i < j => /\ StageRank[calls[w][i].stage] < StageRank[calls[w][j].stage]
                       /\ calls[w][i].ok
        /\ (\E i \in DOMAIN calls[w] : ~ calls[w][i].ok) => pc[w] \in {"except", "raised"}
        /\ Cardinality({i \in DOMAIN reports[w] :
                           /\ "status" \in DOMAIN reports[w][i].fields
                           /\ reports[w][i].fields.status = PyStr("failed")}) <= 1
        /\ pc[w] \in Ended /\ quota[w] = 0 => ~ ENABLED (Next /\ pc'[w] # pc[w])

\* Ghostscript failed and the run has raised: three stages invoked, once
\* each, the failed one last.
C16_Witness ==
    \E w \in Workers :
        /\ pc[w] = "raised"
        /\ StagesOf(w) = <<"download", "pikepdf", "gs">>
        /\ ~ calls[w][3].ok
        /\ loc[w].raised.type = "CalledProcessError"

(***************************************************************************)
(* C17.  The run has called the reporter with the given progress value,    *)
(* whether or not the call returned.                                       *)
(***************************************************************************)
Checkpoint(w, n) ==
    \E i \in DOMAIN reports[w] :
        /\ "progress" \in DOMAIN reports[w][i].fields
        /\ reports[w][i].fields.progress = PyInt(n)

(***************************************************************************)
(* C17.  A run reports a checkpoint only when the step it names is done:   *)
(* 20 only after the download returned a payload of at least one byte; 30  *)
(* only after src was written into the staging directory and validated; 45 *)
(* and 70 only after pikepdf returned and p1 was validated, and 70, if the *)
(* OCR stage was invoked, only after it returned and p2 was validated; 85  *)
(* only after Ghostscript returned, out was validated and the final size   *)
(* and the ratio were set; 100 only together with status=completed and the *)
(* URL, after the upload returned that URL.                                *)
(***************************************************************************)
C17_CheckpointsAfterSteps ==
    \A w \in Workers :
        /\ Checkpoint(w, 20)
              => StageSucceeded(w, "download") /\ loc[w].orig_size >= 1
        /\ Checkpoint(w, 30)
              => TmpCreated(w) /\ "src.pdf" \in validated[w]
        /\ Checkpoint(w, 45) \/ Checkpoint(w, 70)
              => StageSucceeded(w, "pikepdf") /\ "p1.pdf" \in validated[w]
        /\ Checkpoint(w, 70) /\ (StageInvoked(w, "ocr") \/ Checkpoint(w, 45))
              => StageSucceeded(w, "ocr") /\ "p2.pdf" \in validated[w]
        /\ Checkpoint(w, 85)
              => /\ StageSucceeded(w, "gs") /\ "out.pdf" \in validated[w]
                 /\ loc[w].final_size >= 1
                 /\ loc[w].ratio.den = loc[w].orig_size
                 /\ loc[w].ratio.num = 100 * (loc[w].orig_size - loc[w].final_size)
        /\ \A i \in DOMAIN reports[w] :
              LET fields == reports[w][i].fields IN
              \/ /\ "progress" \in DOMAIN fields /\ fields.progress = PyInt(100)
                 /\ "status" \in DOMAIN fields /\ fields.status = PyStr("completed")
                 /\ StageSucceeded(w, "upload")
                 /\ loc[w].cloud_url = SecureUrl
                 /\ fields.result_url = PyStr(SecureUrl)
              \/ /\ "progress" \in DOMAIN fields => fields.progress # PyInt(100)
                 /\ "status" \in DOMAIN fields => fields.status # PyStr("completed")

\* A run with the OCR stage is about to upload: 85 is its last report, and
\* all four artifacts have been validated.
C17_Witness ==
    \E w \in Workers :
        /\ pc[w] = "upload"
        /\ ProgressValues(w) = <<5, 20, 30, 45, 70, 85>>
        /\ validated[w] = Artifacts
        /\ loc[w].final_size >= 1

(***************************************************************************)
(* C18.  Worker w takes the step, and the directory it works in after it.  *)
(***************************************************************************)
Acts(w) == pc'[w] # pc[w]
OwnDirAfter(w) == IF Len(loc'[w].tmp.parts) = 1 THEN {loc'[w].tmp.parts[1]} ELSE {}

\* Every run inside its with block has a directory that exists, and no
\* two such runs have the same one.
PrivateStaging ==
    \A w \in Workers :
        pc[w] \in WithBlock
           => /\ TmpDir(w) \in dirs
              /\ \A v \in Workers \ {w} : pc[v] \in WithBlock => TmpDir(v) # TmpDir(w)
              /\ \A a \in {"src", "p1", "p2", "out", "p2_in"} :
                    loc[w][a] # NoPath => loc[w][a].parts[1] = TmpDir(w)
              /\ \A i \in DOMAIN calls[w] :
                    calls[w][i].stage # "download" => calls[w][i].inp[1] = TmpDir(w)

(***************************************************************************)
(* C18.  With two workers running tasks for different jobs at the same     *)
(* time: every run inside its with block works in a directory that exists  *)
(* and that no other such run works in; all its paths lie in it and every  *)
(* stage it invoked read a file of it; and a step of a run creates,        *)
(* writes, or removes files and directories only in the run's own          *)
(* directory, leaving every other directory and its files as they were.    *)
(***************************************************************************)
C18_PrivateStaging ==
    /\ []PrivateStaging
    /\ [][\A w \in Workers :
             Acts(w)
                => \A d \in DirNames \ OwnDirAfter(w) :
                      /\ files'[d] = files[d]
                      /\ (d \in dirs') <=> (d \in dirs)
         ]_vars

\* Both runs are about to upload, each from its own directory, and both
\* outputs are in place.
C18_Witness ==
    /\ pc["w1"] = "upload" /\ pc["w2"] = "upload"
    /\ loc["w1"].task_id # loc["w2"].task_id
    /\ TmpDir("w1") # TmpDir("w2")
    /\ path_exists(loc["w1"].out) /\ path_exists(loc["w2"].out)
    /\ path_exists(loc["w1"].p2)

(***************************************************************************)
(* C19.  The positions of a run after the length check of line 130.        *)
(***************************************************************************)
AfterLengthCheck == {"report20", "mkdtemp", "report100", "returned"} \cup WithBlock

(***************************************************************************)
(* C19.  A run that has passed the length check of the download holds an   *)
(* original size of at least one byte, so the run stands at the ratio      *)
(* computation only with a divisor greater than 0; a ratio, once computed, *)
(* has that size as its divisor; and no run ever fails with                *)
(* ZeroDivisionError.                                                      *)
(***************************************************************************)
C19_DivisorPositive ==
    \A w \in Workers :
        /\ pc[w] \in AfterLengthCheck
              => StageSucceeded(w, "download") /\ loc[w].orig_size > 0
        /\ pc[w] = "validate_out" => loc[w].orig_size > 0
        /\ loc[w].final_size > 0
              => /\ loc[w].orig_size > 0
                 /\ loc[w].ratio.den = loc[w].orig_size
        /\ loc[w].exc.type # "ZeroDivisionError"
        /\ loc[w].raised.type # "ZeroDivisionError"

\* The ratio was computed on the smallest payload there is: one byte in,
\* two bytes out.
C19_Witness ==
    \E w \in Workers :
        /\ pc[w] = "report85"
        /\ loc[w].orig_size = 1 /\ loc[w].final_size = 2
        /\ loc[w].ratio = [num |-> -100, den |-> 1]

(***************************************************************************)
(* C20.  The report carries status=completed.                              *)
(***************************************************************************)
SaysCompleted(fields) ==
    "status" \in DOMAIN fields /\ fields.status = PyStr("completed")

(***************************************************************************)
(* C20.  In every run: when a report with status=completed is made, the    *)
(* run has left its with block and its staging directory and all its       *)
(* artifacts are gone; and whenever a report publishes a message, the      *)
(* record already holds every field of the message (the store write comes  *)
(* first, and nothing is published when it raises).  So at the moment a    *)
(* status=completed message is published on the job's channel, the record  *)
(* holds status=completed and the result URL, and the run's staging        *)
(* directory does not exist.                                               *)
(***************************************************************************)
C20_CompletedAfterCleanup ==
    [][\A w \in Workers :
         ReportsNow(w)
            => LET r == ReportMade(w)
                   J == loc[w].task_id
                   sent == published'["progress:" \o J] # published["progress:" \o J]
               IN /\ SaysCompleted(r.fields)
                        => /\ pc[w] \notin WithBlock
                           /\ TmpCreated(w)
                           /\ TmpDir(w) \notin dirs
                           /\ files[TmpDir(w)] = NoFiles
                  /\ sent
                        => /\ published'["progress:" \o J] = r.fields
                           /\ \A k \in DOMAIN r.fields :
                                 /\ k \in DOMAIN store'[J]
                                 /\ store'[J][k] = str(r.fields[k])
                  /\ r.outcome = "hset_raises" => ~ sent
                  /\ sent /\ SaysCompleted(r.fields)
                        => /\ store'[J].status = "completed"
                           /\ store'[J].result_url = SecureUrl
                           /\ TmpDir(w) \notin dirs'
                           /\ \A a \in {"src", "p1", "p2", "out"} : ~ path_exists(loc[w][a])'
      ]_vars

\* The status=completed message is on the job's channel, the record holds
\* it with the URL, and the directory the run staged in is gone.
C20_Witness ==
    \E w \in Workers :
        /\ pc[w] = "returned"
        /\ SaysCompleted(published["progress:" \o loc[w].task_id])
        /\ RecordHas(w, "status", "completed")
        /\ RecordHas(w, "result_url", SecureUrl)
        /\ TmpCreated(w) /\ TmpDir(w) \notin dirs
        /\ "out.pdf" \in validated[w]

====
